---------------------------- MODULE Spec2Model ----------------------------
(***************************************************************************)
(* The data-access layer of saaskit (utils/db.ts): items, comments, votes  *)
(* and users stored in Deno KV under several keys each, every mutation     *)
(* going through one kv.atomic() check-then-write transaction.             *)
(*                                                                         *)
(* The store is one function from keys to entries {value, versionstamp}.   *)
(* Every await of the source is one step of the calling process, so calls  *)
(* interleave exactly at the store operations.                             *)
(***************************************************************************)
EXTENDS Integers, Sequences, FiniteSets, Bags, TLC

\* ------------------------------------------------------------- bounds
\* Commits are numbered by one store-wide versionstamp.  The operations on
\* items and votes commit up to versionstamp MaxVersion, those on users up to
\* MaxUserVersion, createComment up to MaxCommentVersion.
MaxVersion == 4
MaxUserVersion == 3
MaxCommentVersion == 2

UserIds == {"u1", "u2"}
\* The identifiers crypto.randomUUID() can return: few, so that collisions happen.
ItemIds == {"i1", "i2"}
Procs == {"p1", "p2", "p3"}
CommentIds == {"c1", "c2"}
Texts == {"first", "second"}
Logins == {"ann", "bob"}
StripeCustomerIds == {"cus1", "cus2"}
SessionIds == {"s1", "s2"}

\* ------------------------------------------------------------- values
\* JavaScript's null and undefined, and the versionstamp of a missing key.
Null == [null |-> TRUE]
Undefined == [undefined |-> TRUE]
NoVersion == 0

ItemKey(id) == <<"items", id>>
VoteByUserKey(userId, itemId) == <<"votes_by_users", userId, itemId>>

UsersKey(id) == <<"users", id>>
UsersByLoginKey(login) == <<"users_by_login", login>>
UsersBySessionKey(sessionId) == <<"users_by_session", sessionId>>
UsersByStripeCustomerKey(stripeCustomerId) ==
    <<"users_by_stripe_customer", stripeCustomerId>>

CommentsByUserKey(userId, id) == <<"comments_by_users", userId, id>>
CommentsByItemKey(itemId, id) == <<"comments_by_item", itemId, id>>

ItemKeys == {ItemKey(i) : i \in ItemIds}
VoteKeys == {VoteByUserKey(u, i) : u \in UserIds, i \in ItemIds}
UserKeys ==
    {UsersKey(u) : u \in UserIds} \cup {UsersByLoginKey(l) : l \in Logins}
    \cup {UsersBySessionKey(x) : x \in SessionIds}
    \cup {UsersByStripeCustomerKey(c) : c \in StripeCustomerIds}
CommentKeys ==
    {CommentsByUserKey(u, c) : u \in UserIds, c \in CommentIds}
    \cup {CommentsByItemKey(i, c) : i \in ItemIds, c \in CommentIds}
Keys == ItemKeys \cup VoteKeys \cup UserKeys \cup CommentKeys

VARIABLES
    kv,         \* the store: key -> [value, versionstamp]
    version,    \* versionstamp of the last commit
    calls,      \* per process: the call in progress or the last one finished
    nCreate,    \* history: createVote transactions committed, per (user, item)
    nDelete,    \* history: deleteVote transactions committed, per (user, item)
    voteWrites, \* history: bag of <<item, versionstamp read>> of committed vote writes
    known       \* history: the user records a caller may hold

vars == <<kv, version, calls, nCreate, nDelete, voteWrites, known>>
votehist == <<nCreate, nDelete, voteWrites>>
hist == <<votehist, known>>

\* ------------------------------------------------------------- the store
\* What kv.get returns for a key that does not exist.
NoEntry == [value |-> Null, versionstamp |-> NoVersion]

\* kv.get(key): the entry, with the versionstamp of its last write.
Get(key) == kv[key]

\* One check of an atomic operation: the key's versionstamp is the expected one
\* (NoVersion: the key is absent).
Check(key, versionstamp) == [key |-> key, versionstamp |-> versionstamp]
CheckEntry(key, entry) == Check(key, entry.versionstamp)

ChecksPass(checks) == \A c \in checks : kv[c.key].versionstamp = c.versionstamp

\* The store after a commit: sets is a function key -> value, deletes a set of keys.
Applied(sets, deletes) ==
    [k \in Keys |->
        IF k \in deletes THEN NoEntry
        ELSE IF k \in DOMAIN sets
             THEN [value |-> sets[k], versionstamp |-> version + 1]
             ELSE kv[k]]

\* kv.atomic().check(..).set(..).delete(..).commit(): all or nothing.
Commit(checks, sets, deletes) ==
    IF ChecksPass(checks)
    THEN /\ kv' = Applied(sets, deletes)
         /\ version' = version + 1
    ELSE UNCHANGED <<kv, version>>

\* A commit taken only while it leaves the versionstamp within max.
CommitUpTo(max, checks, sets, deletes) ==
    /\ Commit(checks, sets, deletes)
    /\ version' <= max

\* ------------------------------------------------------------- calls
Return(v) == [kind |-> "return", value |-> v]
Throw(e) == [kind |-> "throw", error |-> e]

NoReads == [none |-> TRUE]
Pending == [kind |-> "pending"]

\* A process that has made no call yet.
Idle == [op |-> "none", arg |-> Null, pc |-> "done", issued |-> FALSE,
         reads |-> NoReads, result |-> Return(Undefined)]

\* A process is free to start a call when its previous one has finished.
Free(p) == calls[p].pc = "done"

At(p, op, pc) == calls[p].op = op /\ calls[p].pc = pc

\* The call op(arg) of p: suspended at the await named pc, holding the entries
\* it has read; issued says whether it has sent a transaction yet.
Step(p, op, arg, pc, reads, issued) ==
    calls' = [calls EXCEPT ![p] =
        [op |-> op, arg |-> arg, pc |-> pc,
         issued |-> issued, reads |-> reads, result |-> Pending]]

\* The call of p ends: it returns a value or throws.
End(p, op, result, issued) ==
    calls' = [calls EXCEPT ![p] =
        [op |-> op, arg |-> Null, pc |-> "done",
         issued |-> issued, reads |-> NoReads, result |-> result]]

\* ------------------------------------------------------------- items
\* An Item as createItem builds it.  title, url and createdAt are payload no
\* operation of the layer reads; userId stands for the caller's part of the item.
NewItem(initItem, id) == [id |-> id, userId |-> initItem.userId, score |-> 0]

\* Faulty variant: the set without its absence check.
createItemChecks_unguarded(itemKey) == {}

\* .check({ key: itemKey, versionstamp: null })
createItemChecks(itemKey) == {Check(itemKey, NoVersion)}

\* What the telemetry POST can do: a 2xx answer with a JSON body, a 2xx answer
\* whose body resp.json() rejects, another status, or no answer at all (fetch
\* rejects).
FetchOutcomes == {"ok", "badjson", "non2xx", "neterr"}

\* createItem up to its commit: a fresh id, the item, one guarded transaction;
\* a failed commit ends the call with no value.
createItem_commit(p, initItem, id) ==
    /\ Free(p)
    /\ LET item == NewItem(initItem, id)
           checks == createItemChecks(ItemKey(id))
       IN /\ CommitUpTo(MaxVersion, checks, ItemKey(id) :> item, {})
          /\ IF ChecksPass(checks)
             THEN Step(p, "createItem", initItem, "fetch", [item |-> item], TRUE)
             ELSE End(p, "createItem", Return(Undefined), TRUE)
    /\ UNCHANGED hist

\* createItem after its commit: the telemetry POST, then return item.
createItem_fetch(p, outcome) ==
    /\ At(p, "createItem", "fetch")
    /\ End(p, "createItem",
           CASE outcome = "neterr" -> Throw("fetch failed")
             [] outcome = "badjson" -> Throw("json failed")
             [] OTHER -> Return(calls[p].reads.item),
           TRUE)
    /\ UNCHANGED <<kv, version, hist>>

\* ------------------------------------------------------------- comments
\* Faulty variant: only the by-item key is checked to be absent.
createCommentChecks_noUserKeyCheck(commentsByUserKey, commentsByItemKey) ==
    {Check(commentsByItemKey, NoVersion)}

\* Both keys with versionstamp: null.
createCommentChecks(commentsByUserKey, commentsByItemKey) ==
    {Check(commentsByUserKey, NoVersion), Check(commentsByItemKey, NoVersion)}

\* .set(commentsByUserKey, comment).set(commentsByItemKey, comment)
createCommentSets(commentsByUserKey, commentsByItemKey, comment) ==
    (commentsByUserKey :> comment) @@ (commentsByItemKey :> comment)

\* { ...initComment, id, createdAt }: createdAt is payload no operation reads.
NewComment(initComment, id) ==
    [id |-> id, userId |-> initComment.userId, itemId |-> initComment.itemId,
     text |-> initComment.text]

\* createComment: the body of its loop runs once, its return statement ending
\* the call whatever the commit answered.
createComment(p, initComment, id) ==
    /\ Free(p)
    /\ LET commentsByUserKey == CommentsByUserKey(initComment.userId, id)
           commentsByItemKey == CommentsByItemKey(initComment.itemId, id)
           comment == NewComment(initComment, id)
       IN /\ CommitUpTo(MaxCommentVersion,
                        createCommentChecks(commentsByUserKey, commentsByItemKey),
                        createCommentSets(commentsByUserKey, commentsByItemKey, comment),
                        {})
          /\ End(p, "createComment", Return(comment), TRUE)
    /\ UNCHANGED hist

\* ------------------------------------------------------------- votes
\* Faulty variant: the marker's absence is not checked.
createVoteChecks_noMarkerCheck(voteByUserKey, itemKey, itemRes) ==
    {CheckEntry(itemKey, itemRes)}

\* Faulty variant: the item's version is not checked.
createVoteChecks_noItemCheck(voteByUserKey, itemKey, itemRes) ==
    {Check(voteByUserKey, NoVersion)}

\* Faulty variant: the marker is checked against the versionstamp of the item.
createVoteChecks_markerAsItem(voteByUserKey, itemKey, itemRes) ==
    {Check(voteByUserKey, itemRes.versionstamp), CheckEntry(itemKey, itemRes)}

\* .check({ key: voteByUserKey, versionstamp: null }).check(itemRes)
createVoteChecks(voteByUserKey, itemKey, itemRes) ==
    {Check(voteByUserKey, NoVersion), CheckEntry(itemKey, itemRes)}

\* .set(itemRes.key, itemRes.value).set(voteByUserKey, undefined)
createVoteSets(voteByUserKey, itemKey, itemRes) ==
    (itemKey :> itemRes.value) @@ (voteByUserKey :> Undefined)

\* One turn of createVote's loop up to the commit: read the item, throw if it
\* is missing, increment the score of the copy read.
createVoteTurn(p, initVote, issued) ==
    LET itemRes == Get(ItemKey(initVote.itemId))
    IN IF itemRes.value = Null
       THEN End(p, "createVote", Throw("Item does not exist"), issued)
       ELSE Step(p, "createVote", initVote, "commit",
                 [item |-> [itemRes EXCEPT !.value.score = @ + 1]], issued)

\* The call, up to the first await that can change its course.
createVote_call(p, initVote) ==
    /\ Free(p)
    /\ createVoteTurn(p, initVote, FALSE)
    /\ UNCHANGED <<kv, version, hist>>

\* A further turn, after a failed commit.
createVote_get(p) ==
    /\ At(p, "createVote", "get")
    /\ createVoteTurn(p, calls[p].arg, calls[p].issued)
    /\ UNCHANGED <<kv, version, hist>>

\* The commit of the turn: on success the loop ends, on failure it starts again.
createVote_commit(p) ==
    /\ At(p, "createVote", "commit")
    /\ LET initVote == calls[p].arg
           itemKey == ItemKey(initVote.itemId)
           voteByUserKey == VoteByUserKey(initVote.userId, initVote.itemId)
           itemRes == calls[p].reads.item
           checks == createVoteChecks(voteByUserKey, itemKey, itemRes)
       IN /\ CommitUpTo(MaxVersion, checks, createVoteSets(voteByUserKey, itemKey, itemRes), {})
          /\ IF ChecksPass(checks)
             THEN /\ End(p, "createVote", Return(Undefined), TRUE)
                  /\ nCreate' = [nCreate EXCEPT ![<<initVote.userId, initVote.itemId>>] = @ + 1]
                  /\ voteWrites' = voteWrites (+) SetToBag({<<initVote.itemId, itemRes.versionstamp>>})
                  /\ UNCHANGED nDelete
             ELSE /\ Step(p, "createVote", initVote, "get", NoReads, TRUE)
                  /\ UNCHANGED votehist
          /\ UNCHANGED known

\* .check(itemRes).check(voteByUserRes)
deleteVoteChecks(voteByUserKey, itemKey, itemRes, voteByUserRes) ==
    {CheckEntry(itemKey, itemRes), CheckEntry(voteByUserKey, voteByUserRes)}

\* .set(itemRes.key, itemRes.value)
deleteVoteSets(itemKey, itemRes) == itemKey :> itemRes.value

\* Faulty variant: an absent marker does not end the call.
deleteVoteDecide_noReturn(itemRes, voteByUserRes) ==
    IF itemRes.value = Null THEN "throw" ELSE "commit"

\* What deleteVote does with the two entries it has read: throw, return, or go
\* on to the commit.
deleteVoteDecide(itemRes, voteByUserRes) ==
    IF itemRes.value = Null THEN "throw"
    ELSE IF voteByUserRes.value = Null THEN "return"
    ELSE "commit"

\* The first await of a turn of deleteVote's loop: read the item.
deleteVoteTurn(p, initVote, issued) ==
    Step(p, "deleteVote", initVote, "getVote",
         [item |-> Get(ItemKey(initVote.itemId))], issued)

deleteVote_call(p, initVote) ==
    /\ Free(p)
    /\ deleteVoteTurn(p, initVote, FALSE)
    /\ UNCHANGED <<kv, version, hist>>

deleteVote_getItem(p) ==
    /\ At(p, "deleteVote", "getItem")
    /\ deleteVoteTurn(p, calls[p].arg, calls[p].issued)
    /\ UNCHANGED <<kv, version, hist>>

\* The second await of the turn: read the marker, then throw, return, or
\* decrement the score of the copy read and go on to the commit.
deleteVote_getVote(p) ==
    /\ At(p, "deleteVote", "getVote")
    /\ LET initVote == calls[p].arg
           itemRes == calls[p].reads.item
           voteByUserRes == Get(VoteByUserKey(initVote.userId, initVote.itemId))
           todo == deleteVoteDecide(itemRes, voteByUserRes)
       IN CASE todo = "throw" ->
                 End(p, "deleteVote", Throw("Item does not exist"), calls[p].issued)
            [] todo = "return" ->
                 End(p, "deleteVote", Return(Undefined), calls[p].issued)
            [] OTHER ->
                 Step(p, "deleteVote", initVote, "commit",
                      [item |-> [itemRes EXCEPT !.value.score = @ - 1],
                       vote |-> voteByUserRes],
                      calls[p].issued)
    /\ UNCHANGED <<kv, version, hist>>

deleteVote_commit(p) ==
    /\ At(p, "deleteVote", "commit")
    /\ LET initVote == calls[p].arg
           itemKey == ItemKey(initVote.itemId)
           voteByUserKey == VoteByUserKey(initVote.userId, initVote.itemId)
           itemRes == calls[p].reads.item
           checks == deleteVoteChecks(voteByUserKey, itemKey, itemRes,
                                      calls[p].reads.vote)
       IN /\ CommitUpTo(MaxVersion, checks, deleteVoteSets(itemKey, itemRes), {voteByUserKey})
          /\ IF ChecksPass(checks)
             THEN /\ End(p, "deleteVote", Return(Undefined), TRUE)
                  /\ nDelete' = [nDelete EXCEPT ![<<initVote.userId, initVote.itemId>>] = @ + 1]
                  /\ voteWrites' = voteWrites (+) SetToBag({<<initVote.itemId, itemRes.versionstamp>>})
                  /\ UNCHANGED nCreate
             ELSE /\ Step(p, "deleteVote", initVote, "getItem", NoReads, TRUE)
                  /\ UNCHANGED votehist
          /\ UNCHANGED known

\* ------------------------------------------------------------- users
\* The four keys a user record is stored under.
UserKeysOf(user) ==
    [user |-> UsersKey(user.id),
     byLogin |-> UsersByLoginKey(user.login),
     bySession |-> UsersBySessionKey(user.sessionId),
     byStripeCustomer |-> UsersByStripeCustomerKey(user.stripeCustomerId)]

\* kv.getMany(keys): the entries of the keys, read at one point in time.
GetMany(keys) == [n \in DOMAIN keys |-> Get(keys[n])]

\* One value under every key of keys.
SetAll(keys, value) ==
    [k \in {keys[n] : n \in DOMAIN keys} |-> value]

\* Faulty variant: the login index is not checked.
createUserChecks_noLoginCheck(user) ==
    {Check(UsersKey(user.id), NoVersion),
     Check(UsersBySessionKey(user.sessionId), NoVersion),
     Check(UsersByStripeCustomerKey(user.stripeCustomerId), NoVersion)}

\* Four checks with versionstamp: null.
createUserChecks(user) ==
    {Check(UsersKey(user.id), NoVersion),
     Check(UsersByLoginKey(user.login), NoVersion),
     Check(UsersBySessionKey(user.sessionId), NoVersion),
     Check(UsersByStripeCustomerKey(user.stripeCustomerId), NoVersion)}

\* Faulty variant: the record is built without the caller's sessionId.
NewUser_emptySession(initUser) ==
    [id |-> initUser.id, login |-> initUser.login,
     stripeCustomerId |-> initUser.stripeCustomerId,
     sessionId |-> "", isSubscribed |-> FALSE]

\* user = { ...user, isSubscribed: false }.  avatarUrl is payload no operation
\* reads and is left out of the record.
NewUser(initUser) ==
    [id |-> initUser.id, login |-> initUser.login,
     stripeCustomerId |-> initUser.stripeCustomerId,
     sessionId |-> initUser.sessionId, isSubscribed |-> FALSE]

\* createUser: one transaction; a failed commit is thrown.
createUser(p, initUser) ==
    /\ Free(p)
    /\ LET user == NewUser(initUser)
           checks == createUserChecks(initUser)
       IN /\ CommitUpTo(MaxUserVersion, checks, SetAll(UserKeysOf(initUser), user), {})
          /\ IF ChecksPass(checks)
             THEN /\ End(p, "createUser", Return(user), TRUE)
                  /\ known' = known \cup {user}
             ELSE /\ End(p, "createUser", Throw("commit failed"), TRUE)
                  /\ UNCHANGED known
    /\ UNCHANGED votehist

getUserById(id) == Get(UsersKey(id)).value
getUserByLogin(login) == Get(UsersByLoginKey(login)).value
getUserByStripeCustomerId(stripeCustomerId) ==
    Get(UsersByStripeCustomerKey(stripeCustomerId)).value
\* getUserBySessionId when it reads with the default (strong) consistency.
getUserBySessionId_strong(sessionId) == Get(UsersBySessionKey(sessionId)).value

isEntry(entry) == entry.versionstamp # NoVersion

\* [...].forEach((res) => assertIsEntry(res)): does every entry read exist?
AllEntries(reads) == \A n \in DOMAIN reads : isEntry(reads[n])

\* One check per entry read: .check(userRes).check(userByLoginRes)...
ChecksOfReads(keys, reads) == {CheckEntry(keys[n], reads[n]) : n \in DOMAIN reads}

\* setUserSubscription up to its commit: read the four copies, throw unless
\* all four exist.
setUserSubscription_call(p, user, isSubscribed) ==
    /\ Free(p)
    /\ LET arg == [user |-> user, isSubscribed |-> isSubscribed]
           reads == GetMany(UserKeysOf(user))
       IN IF AllEntries(reads)
          THEN Step(p, "setUserSubscription", arg, "commit", reads, FALSE)
          ELSE End(p, "setUserSubscription", Throw("AssertionError"), FALSE)
    /\ UNCHANGED <<kv, version, hist>>

setUserSubscriptionChecks(keys, reads) == ChecksOfReads(keys, reads)

\* Faulty variant: the session index is not rewritten.
setUserSubscriptionSets_noSession(keys, user) ==
    [k \in {keys[n] : n \in DOMAIN keys \ {"bySession"}} |-> user]

setUserSubscriptionSets(keys, user) == SetAll(keys, user)

\* The commit: the record passed in, with the new flag, over all four copies.
setUserSubscription_commit(p) ==
    /\ At(p, "setUserSubscription", "commit")
    /\ LET arg == calls[p].arg
           keys == UserKeysOf(arg.user)
           user == [arg.user EXCEPT !.isSubscribed = arg.isSubscribed]
           checks == setUserSubscriptionChecks(keys, calls[p].reads)
       IN /\ CommitUpTo(MaxUserVersion, checks, setUserSubscriptionSets(keys, user), {})
          /\ IF ChecksPass(checks)
             THEN /\ End(p, "setUserSubscription", Return(Undefined), TRUE)
                  /\ known' = known \cup {user}
             ELSE /\ End(p, "setUserSubscription", Throw("commit failed"), TRUE)
                  /\ UNCHANGED known
    /\ UNCHANGED votehist

\* The keys setUserSession reads: the three copies that do not move.
SessionReadKeys(user) ==
    [user |-> UsersKey(user.id),
     byLogin |-> UsersByLoginKey(user.login),
     byStripeCustomer |-> UsersByStripeCustomerKey(user.stripeCustomerId)]

setUserSession_call(p, user, sessionId) ==
    /\ Free(p)
    /\ LET arg == [user |-> user, sessionId |-> sessionId]
           reads == GetMany(SessionReadKeys(user))
       IN IF AllEntries(reads)
          THEN Step(p, "setUserSession", arg, "commit", reads, FALSE)
          ELSE End(p, "setUserSession", Throw("AssertionError"), FALSE)
    /\ UNCHANGED <<kv, version, hist>>

\* Faulty variant: the new session key is not checked to be absent.
setUserSessionChecks_noAbsenceCheck(user, sessionId, reads) ==
    ChecksOfReads(SessionReadKeys(user), reads)

\* The three entries read, and the new session key absent.
setUserSessionChecks(user, sessionId, reads) ==
    ChecksOfReads(SessionReadKeys(user), reads)
        \cup {Check(UsersBySessionKey(sessionId), NoVersion)}

\* The commit: user = { ...user, sessionId } under the three copies read and
\* under the new session key.
setUserSession_commit(p) ==
    /\ At(p, "setUserSession", "commit")
    /\ LET arg == calls[p].arg
           user == [arg.user EXCEPT !.sessionId = arg.sessionId]
           checks == setUserSessionChecks(arg.user, arg.sessionId, calls[p].reads)
       IN /\ CommitUpTo(MaxUserVersion, checks, SetAll(UserKeysOf(user), user), {})
          /\ IF ChecksPass(checks)
             THEN /\ End(p, "setUserSession", Return(Undefined), TRUE)
                  /\ known' = known \cup {user}
             ELSE /\ End(p, "setUserSession", Throw("commit failed"), TRUE)
                  /\ UNCHANGED known
    /\ UNCHANGED votehist

\* deleteUser up to its commit: read the four copies (no assertion follows).
deleteUser_call(p, user) ==
    /\ Free(p)
    /\ Step(p, "deleteUser", [user |-> user], "commit",
            GetMany(UserKeysOf(user)), FALSE)
    /\ UNCHANGED <<kv, version, hist>>

deleteUserChecks(keys, reads) == ChecksOfReads(keys, reads)

\* The commit: the four entries as read, then four deletes.
deleteUser_commit(p) ==
    /\ At(p, "deleteUser", "commit")
    /\ LET arg == calls[p].arg
           keys == UserKeysOf(arg.user)
           checks == deleteUserChecks(keys, calls[p].reads)
       IN /\ CommitUpTo(MaxUserVersion, checks, <<>>, {keys[n] : n \in DOMAIN keys})
          /\ End(p, "deleteUser",
                 IF ChecksPass(checks) THEN Return(Undefined)
                 ELSE Throw("commit failed"), TRUE)
    /\ UNCHANGED hist

\* Faulty variant: the copies of the user the session key holds go with it.
deleteUserBySession_allCopies(p, sessionId) ==
    /\ Free(p)
    /\ LET entry == Get(UsersBySessionKey(sessionId))
           keys == IF isEntry(entry) THEN UserKeysOf(entry.value) ELSE <<>>
       IN CommitUpTo(MaxUserVersion, {}, <<>>,
                     {UsersBySessionKey(sessionId)} \cup {keys[n] : n \in DOMAIN keys})
    /\ End(p, "deleteUserBySession", Return(Undefined), TRUE)
    /\ UNCHANGED hist

\* deleteUserBySession: kv.delete of the session key, whatever it holds.
deleteUserBySession(p, sessionId) ==
    /\ Free(p)
    /\ CommitUpTo(MaxUserVersion, {}, <<>>, {UsersBySessionKey(sessionId)})
    /\ End(p, "deleteUserBySession", Return(Undefined), TRUE)
    /\ UNCHANGED hist

\* ------------------------------------------------------------- getUserBySessionId
\* What kv.get(key, { consistency: "eventual" }) can return for a session key:
\* the value the key has, or one it had at some earlier time, which is null (a
\* store starts empty) or a record written under the key since.  Every record
\* written is in known, under the session key of its own sessionId.
EventualValues(sessionId) ==
    {Null, Get(UsersBySessionKey(sessionId)).value}
        \cup {user \in known : user.sessionId = sessionId}

\* Faulty variant: the answer of the eventual read is taken as it is.
IsFalsy_never(value) == FALSE

\* !res.value, for the values a session key holds: records and null.
IsFalsy(value) == value = Null

\* getUserBySessionId up to the answer of its eventual read: a value is
\* returned, no value sends the strong read.
getUserBySessionId_call(p, sessionId, value) ==
    /\ Free(p)
    /\ value \in EventualValues(sessionId)
    /\ IF IsFalsy(value)
       THEN Step(p, "getUserBySessionId", [sessionId |-> sessionId], "get",
                 [eventual |-> value], FALSE)
       ELSE End(p, "getUserBySessionId", Return(value), FALSE)
    /\ UNCHANGED <<kv, version, hist>>

\* The answer of the strong read is returned, whatever it is.
getUserBySessionId_get(p) ==
    /\ At(p, "getUserBySessionId", "get")
    /\ End(p, "getUserBySessionId",
           Return(getUserBySessionId_strong(calls[p].arg.sessionId)), FALSE)
    /\ UNCHANGED <<kv, version, hist>>

\* ------------------------------------------------------------- getUsersByIds
\* The limit of kv.getMany the batches are cut to.
BatchSize == 10

Min(a, b) == IF a < b THEN a ELSE b

\* arr.slice(from, to): the elements at the 0-based positions from .. to - 1.
Slice(arr, from, to) == SubSeq(arr, from + 1, Min(to, Len(arr)))

\* Faulty variant: each batch takes one element more than n, so that
\* consecutive batches overlap.
RECURSIVE batchifyFrom_overlap(_, _, _)
batchifyFrom_overlap(arr, n, i) ==
    IF i < Len(arr)
    THEN <<Slice(arr, i, i + n + 1)>> \o batchifyFrom_overlap(arr, n, i + n)
    ELSE <<>>

\* for (let i = ...; i < arr.length; i += n) yield arr.slice(i, i + n)
RECURSIVE batchifyFrom(_, _, _)
batchifyFrom(arr, n, i) ==
    IF i < Len(arr)
    THEN <<Slice(arr, i, i + n)>> \o batchifyFrom(arr, n, i + n)
    ELSE <<>>

\* batchify(arr, n): the batches the generator yields, in order.
batchify(arr, n) == batchifyFrom(arr, n, 0)

\* A JavaScript array as a value of the model.
Array(elements) == [array |-> elements]

\* (await kv.getMany(batch)).map((entry) => entry.value)
getManyValues(batch) == [n \in DOMAIN batch |-> Get(batch[n]).value]

\* getUsersByIds up to its first await: the keys of the ids, the first batch
\* sent; with no ids there is no batch and the call returns at once.  sent
\* counts the getMany calls made, start is the versionstamp at the call.
getUsersByIds_call(p, ids) ==
    /\ Free(p)
    /\ LET keys == [n \in DOMAIN ids |-> UsersKey(ids[n])]
       IN IF batchify(keys, BatchSize) = <<>>
          THEN End(p, "getUsersByIds", Return(Array(<<>>)), FALSE)
          ELSE Step(p, "getUsersByIds", [ids |-> ids], "getMany",
                    [users |-> <<>>, batches |-> batchify(keys, BatchSize),
                     sent |-> 1, start |-> version],
                    FALSE)
    /\ UNCHANGED <<kv, version, hist>>

\* The answer of a getMany: its values are pushed onto users; then the next
\* batch is sent, or users is returned.
getUsersByIds_getMany(p) ==
    /\ At(p, "getUsersByIds", "getMany")
    /\ LET r == calls[p].reads
           users == r.users \o getManyValues(r.batches[r.sent])
       IN IF r.sent < Len(r.batches)
          THEN Step(p, "getUsersByIds", calls[p].arg, "getMany",
                    [r EXCEPT !.users = users, !.sent = @ + 1], FALSE)
          ELSE End(p, "getUsersByIds", Return(Array(users)), FALSE)
    /\ UNCHANGED <<kv, version, hist>>

\* ------------------------------------------------------------- computeZeroToOneScore
\* JavaScript numbers between 0 and 2 are counted in ten-thousandths (0.5 is
\* 5000); strings are sequences of characters.  The two are values of
\* different types.
Number(tenThousandths) == [number |-> tenThousandths]
String(chars) == [string |-> chars]

DigitChars == <<"0", "1", "2", "3", "4", "5", "6", "7", "8", "9">>

\* The i-th digit after the point of n ten-thousandths.
FractionDigit(n, i) ==
    CASE i = 1 -> (n \div 1000) % 10
      [] i = 2 -> (n \div 100) % 10
      [] i = 3 -> (n \div 10) % 10
      [] i = 4 -> n % 10
      [] OTHER -> 0

\* x.toFixed(18): the integer part, the point and 18 digits after it.
toFixed18(n) ==
    <<DigitChars[(n \div 10000) + 1], ".">>
        \o [i \in 1..18 |-> DigitChars[FractionDigit(n, i) + 1]]

Max(a, b) == IF a > b THEN a ELSE b

\* The values the arithmetic of val can give.  It is floating-point
\* arithmetic with square roots and logarithms of the age and of the score;
\* here it is any value around the range it is clamped to.
ScoreBlends == {0, 999, 1000, 1001, 3333, 5000, 5001, 9999, 10000, 12000}

\* computeZeroToOneScore(score, timestampMs), val being what the arithmetic
\* gave: the number 0.5 for no votes; otherwise val clamped to [0.1, 1.0],
\* written with 18 decimals, of which the characters 2..17 are kept.
computeZeroToOneScore(score, timestampMs, val) ==
    IF score = 0 THEN Number(5000)
    ELSE LET bounded == Min(10000, Max(1000, val))
         IN String(Slice(toFixed18(bounded), 2, 18))

\* A call of the function by p: it returns at once.  now is the clock it reads.
computeZeroToOneScore_call(p, score, timestampMs, now, val) ==
    /\ Free(p)
    /\ calls' = [calls EXCEPT ![p] =
          [op |-> "computeZeroToOneScore",
           arg |-> [score |-> score, timestampMs |-> timestampMs],
           pc |-> "done", issued |-> FALSE, reads |-> [now |-> now],
           result |-> Return(computeZeroToOneScore(score, timestampMs, val))]]
    /\ UNCHANGED <<kv, version, hist>>

\* ------------------------------------------------------------- specifications
Pairs == UserIds \X ItemIds

InitHist ==
    /\ nCreate = [pr \in Pairs |-> 0]
    /\ nDelete = [pr \in Pairs |-> 0]
    /\ voteWrites = EmptyBag
    /\ known = {}

\* The store as Deno.openKv() gives it: empty.
Init ==
    /\ kv = [k \in Keys |-> NoEntry]
    /\ version = 0
    /\ calls = [p \in Procs |-> Idle]
    /\ InitHist

InitVotes == [userId : UserIds, itemId : ItemIds]
InitItems == [userId : UserIds]
VoteProcs == {"p1", "p2"}

\* Items and votes: any users, any items.
NextVotes ==
    \E p \in VoteProcs :
        \/ \E initItem \in InitItems, id \in ItemIds : createItem_commit(p, initItem, id)
        \/ \E o \in FetchOutcomes : createItem_fetch(p, o)
        \/ \E initVote \in InitVotes : createVote_call(p, initVote)
        \/ createVote_get(p)
        \/ createVote_commit(p)
        \/ \E initVote \in InitVotes : deleteVote_call(p, initVote)
        \/ deleteVote_getItem(p)
        \/ deleteVote_getVote(p)
        \/ deleteVote_commit(p)

SpecVotes == Init /\ [][NextVotes]_vars

\* The records createUser is called with: two users with nothing in common,
\* and four that share exactly one of id, login, stripeCustomerId and sessionId
\* with the first.
InitUsers ==
    {[id |-> "u1", login |-> "ann", stripeCustomerId |-> "cus1", sessionId |-> "s1"],
     [id |-> "u2", login |-> "bob", stripeCustomerId |-> "cus2", sessionId |-> "s2"],
     [id |-> "u1", login |-> "bob", stripeCustomerId |-> "cus2", sessionId |-> "s2"],
     [id |-> "u2", login |-> "ann", stripeCustomerId |-> "cus2", sessionId |-> "s2"],
     [id |-> "u2", login |-> "bob", stripeCustomerId |-> "cus1", sessionId |-> "s2"],
     [id |-> "u2", login |-> "bob", stripeCustomerId |-> "cus2", sessionId |-> "s1"]}
UserProcs == {"p1", "p2"}

\* The mutations of a user that keep it: callers pass records they were handed.
NextUserMut ==
    \E p \in UserProcs :
        \/ \E initUser \in InitUsers : createUser(p, initUser)
        \/ \E user \in known, b \in BOOLEAN : setUserSubscription_call(p, user, b)
        \/ setUserSubscription_commit(p)
        \/ \E user \in known, x \in SessionIds : setUserSession_call(p, user, x)
        \/ setUserSession_commit(p)

SpecUserMut == Init /\ [][NextUserMut]_vars

\* Every operation on users.
NextUsers ==
    \E p \in UserProcs :
        \/ \E initUser \in InitUsers : createUser(p, initUser)
        \/ \E user \in known, b \in BOOLEAN : setUserSubscription_call(p, user, b)
        \/ setUserSubscription_commit(p)
        \/ \E user \in known, x \in SessionIds : setUserSession_call(p, user, x)
        \/ setUserSession_commit(p)
        \/ \E user \in known : deleteUser_call(p, user)
        \/ deleteUser_commit(p)
        \/ \E x \in SessionIds : deleteUserBySession(p, x)

SpecUsers == Init /\ [][NextUsers]_vars

InitComments == [userId : UserIds, itemId : ItemIds, text : Texts]
CommentProcs == {"p1", "p2"}

\* Comments: any users, any items, identifiers that can collide.
NextComments ==
    \E p \in CommentProcs :
        \E initComment \in InitComments, id \in CommentIds :
            createComment(p, initComment, id)

SpecComments == Init /\ [][NextComments]_vars

\* One (user, item) pair of an existing item: every call is a createVote or a
\* deleteVote of PairUser on PairItem.  The item was created by OtherUser, who
\* may have voted for it already.
PairUser == "u1"
PairItem == "i1"
OtherUser == "u2"
Pair == <<PairUser, PairItem>>
PairVote == [userId |-> PairUser, itemId |-> PairItem]

\* The store after createItem by OtherUser and votes createVote calls by OtherUser.
PairStore(votes) ==
    [k \in Keys |->
        IF k = ItemKey(PairItem)
        THEN [value |-> [id |-> PairItem, userId |-> OtherUser, score |-> votes],
              versionstamp |-> 1 + votes]
        ELSE IF k = VoteByUserKey(OtherUser, PairItem) /\ votes = 1
             THEN [value |-> Undefined, versionstamp |-> 2]
             ELSE NoEntry]

InitPair ==
    \E votes \in {0, 1} :
        /\ kv = PairStore(votes)
        /\ version = 1 + votes
        /\ calls = [p \in Procs |-> Idle]
        /\ nCreate = [pr \in Pairs |-> IF pr = <<OtherUser, PairItem>> THEN votes ELSE 0]
        /\ nDelete = [pr \in Pairs |-> 0]
        /\ voteWrites = IF votes = 1 THEN SetToBag({<<PairItem, 1>>}) ELSE EmptyBag
        /\ known = {}

NextPair ==
    \E p \in Procs :
        \/ createVote_call(p, PairVote)
        \/ createVote_get(p)
        \/ createVote_commit(p)
        \/ deleteVote_call(p, PairVote)
        \/ deleteVote_getItem(p)
        \/ deleteVote_getVote(p)
        \/ deleteVote_commit(p)

SpecPair == InitPair /\ [][NextPair]_vars

\* The most ids a getUsersByIds call is given.
MaxIds == 25

\* The lists of ids of every length up to MaxIds: u1 at the positions
\* congruent to r modulo m, u2 (another user, stored or not) at the others.
\* With m = 3 no two batches of a list ask for the same ids in the same order.
IdsOf(len, m, r) == [i \in 1..len |-> IF i % m = r THEN "u1" ELSE "u2"]
IdLists == {IdsOf(len, m, r) : len \in 0..MaxIds, m \in 1..3, r \in 0..2}

BatchReader == "p2"
BatchWriter == "p1"

\* getUsersByIds calls of one process while another creates users.
NextBatch ==
    \/ \E ids \in IdLists : getUsersByIds_call(BatchReader, ids)
    \/ getUsersByIds_getMany(BatchReader)
    \/ \E initUser \in InitUsers : createUser(BatchWriter, initUser)

SpecBatch == Init /\ [][NextBatch]_vars

\* The most votes of an item that is scored.
MaxScore == 3

\* Times in milliseconds: of the creation of an item, and of the clock.
Times == {0, 1, 86400000}

\* Scores computed for any vote count, creation time and clock.
NextScore ==
    \E score \in 0..MaxScore, timestampMs \in Times, now \in Times, val \in ScoreBlends :
        computeZeroToOneScore_call("p1", score, timestampMs, now, val)

SpecScore == Init /\ [][NextScore]_vars

SessionReader == "p2"
SessionWriter == "p1"

\* Lookups by session of one process while another creates users, rotates
\* their sessions and logs them out.
NextSession ==
    \/ \E x \in SessionIds, value \in known \cup {Null} :
          getUserBySessionId_call(SessionReader, x, value)
    \/ getUserBySessionId_get(SessionReader)
    \/ \E initUser \in InitUsers : createUser(SessionWriter, initUser)
    \/ \E user \in known, x \in SessionIds : setUserSession_call(SessionWriter, user, x)
    \/ setUserSession_commit(SessionWriter)
    \/ \E x \in SessionIds : deleteUserBySession(SessionWriter, x)

SpecSession == Init /\ [][NextSession]_vars

\* Finitely many vote calls on one existing item, no two on the same pair:
\* each process makes at most one call, for a user of its own.
OnceItem == "i1"
OnceUser(p) == IF p = "p1" THEN "u1" ELSE "u2"
OnceVote(p) == [userId |-> OnceUser(p), itemId |-> OnceItem]

\* The store after createItem by creator and the createVote calls of the users
\* in voted, u1's before u2's.
OnceStore(voted, creator) ==
    [k \in Keys |->
        IF k = ItemKey(OnceItem)
        THEN [value |-> [id |-> OnceItem, userId |-> creator, score |-> Cardinality(voted)],
              versionstamp |-> 1 + Cardinality(voted)]
        ELSE IF \E u \in voted : k = VoteByUserKey(u, OnceItem)
             THEN [value |-> Undefined,
                   versionstamp |-> IF k = VoteByUserKey("u1", OnceItem) THEN 2
                                    ELSE 1 + Cardinality(voted)]
             ELSE NoEntry]

\* As many earlier votes as leave room for the commits of the calls.
InitOnce ==
    \E voted \in SUBSET UserIds, creator \in UserIds :
        /\ 1 + Cardinality(voted) + Cardinality(VoteProcs) <= MaxVersion
        /\ kv = OnceStore(voted, creator)
        /\ version = 1 + Cardinality(voted)
        /\ calls = [p \in Procs |-> Idle]
        /\ nCreate = [pr \in Pairs |-> IF pr[1] \in voted /\ pr[2] = OnceItem THEN 1 ELSE 0]
        /\ nDelete = [pr \in Pairs |-> 0]
        /\ voteWrites = SetToBag({<<OnceItem, v>> : v \in 1..Cardinality(voted)})
        /\ known = {}

\* The steps a call in progress takes: every await is answered.
OnceProgress(p) ==
    \/ createVote_get(p)
    \/ createVote_commit(p)
    \/ deleteVote_getItem(p)
    \/ deleteVote_getVote(p)
    \/ deleteVote_commit(p)

\* A process that has made no call calls createVote if the marker of its user
\* is absent, or deleteVote.
NextOnce ==
    \E p \in VoteProcs :
        \/ /\ calls[p].op = "none"
           /\ ~(kv[VoteByUserKey(OnceUser(p), OnceItem)].versionstamp # NoVersion)
           /\ createVote_call(p, OnceVote(p))
        \/ /\ calls[p].op = "none"
           /\ deleteVote_call(p, OnceVote(p))
        \/ OnceProgress(p)

SpecOnce ==
    /\ InitOnce
    /\ [][NextOnce]_vars
    /\ \A p \in VoteProcs : WF_vars(OnceProgress(p))

\* Every record a caller can make up, stored or not.
AnyInitUsers ==
    [id : UserIds, login : Logins, stripeCustomerId : StripeCustomerIds,
     sessionId : SessionIds]
AnyUsers ==
    [id : UserIds, login : Logins, stripeCustomerId : StripeCustomerIds,
     sessionId : SessionIds, isSubscribed : BOOLEAN]

AnyCaller == "p1"

\* The mutations of a user that keep it, called one after another with any
\* arguments (setUserSubscription to change the flag of the record passed).
NextUserAny ==
    \E p \in {AnyCaller} :
        \/ \E initUser \in AnyInitUsers : createUser(p, initUser)
        \/ \E user \in AnyUsers : setUserSubscription_call(p, user, ~user.isSubscribed)
        \/ setUserSubscription_commit(p)
        \/ \E user \in AnyUsers, x \in SessionIds : setUserSession_call(p, user, x)
        \/ setUserSession_commit(p)

SpecUserAny == Init /\ [][NextUserAny]_vars

\* ------------------------------------------------------------- properties
Present(key) == kv[key].versionstamp # NoVersion
Score(itemId) == kv[ItemKey(itemId)].value.score
Voters(itemId) == {u \in UserIds : Present(VoteByUserKey(u, itemId))}
Stepped(p) == calls'[p] # calls[p]

\* The score PairItem had before the calls on the pair began: OtherUser's vote.
PairInitialScore == Cardinality(Voters(PairItem) \ {PairUser})

\* C1: under any interleaving of createVote and deleteVote calls on one
\* (user, item) pair, the item's score minus its initial score is the number of
\* createVote commits minus the number of deleteVote commits, and that
\* difference is 1 exactly when the marker key is present, 0 when it is absent.
C1_ScoreDeltaMatchesMarker ==
    LET delta == nCreate[Pair] - nDelete[Pair]
    IN /\ Score(PairItem) - PairInitialScore = delta
       /\ delta = IF Present(VoteByUserKey(PairUser, PairItem)) THEN 1 ELSE 0

\* Two createVote commits and a deleteVote commit on the pair, with a further
\* call in flight.
C1_Witness ==
    /\ nCreate[Pair] = 2
    /\ nDelete[Pair] = 1
    /\ \E p \in Procs : calls[p].pc # "done"

\* C2: under any interleaving of createItem, createVote and deleteVote calls by
\* any users, each item's score is the number of users whose marker key for
\* the item is present; an item that is not stored has no marker.
C2_ScoreCountsMarkers ==
    \A i \in ItemIds :
        IF Present(ItemKey(i))
        THEN Score(i) = Cardinality(Voters(i))
        ELSE Voters(i) = {}

\* An item one user has voted for while the other has voted and deleted the vote.
C2_Witness ==
    \E i \in ItemIds, u, w \in UserIds :
        /\ u # w
        /\ Present(VoteByUserKey(u, i))
        /\ nCreate[<<w, i>>] = 1 /\ nDelete[<<w, i>>] = 1
        /\ Score(i) = 1

VoteOps == {"createVote", "deleteVote"}

\* C3: no two committed vote writes are computed from the same version of an
\* item, and a vote commit whose item version is stale changes nothing and
\* sends its call back to the read.
C3_StepOk ==
    /\ \A e \in BagToSet(voteWrites') : CopiesIn(e, voteWrites') = 1
    /\ \A p \in Procs :
          ( /\ calls[p].op \in VoteOps
            /\ calls[p].pc = "commit"
            /\ calls[p].reads.item.versionstamp
                 # kv[ItemKey(calls[p].arg.itemId)].versionstamp
            /\ Stepped(p) )
          => /\ kv' = kv
             /\ calls'[p].pc \in {"get", "getItem"}

C3_VoteWritesSerialize == [][C3_StepOk]_vars

\* A call whose commit lost on the item's version alone (its own marker is as
\* its commit needs it) is back at its read, after another vote has committed.
C3_Witness ==
    \E p \in Procs :
        /\ calls[p].op = "createVote"
        /\ calls[p].pc = "get"
        /\ calls[p].issued
        /\ ~Present(VoteByUserKey(calls[p].arg.userId, calls[p].arg.itemId))
        /\ \E u \in UserIds \ {calls[p].arg.userId} :
              nCreate[<<u, calls[p].arg.itemId>>] > 0

\* C5: a turn of deleteVote that has read an existing item and finds the marker
\* key absent ends the call: it returns undefined, sends no transaction and
\* leaves the whole store unchanged.
C5_StepOk ==
    \A p \in Procs :
        ( /\ At(p, "deleteVote", "getVote")
          /\ calls[p].reads.item.value # Null
          /\ ~Present(VoteByUserKey(calls[p].arg.userId, calls[p].arg.itemId))
          /\ Stepped(p) )
        => /\ calls'[p].pc = "done"
           /\ calls'[p].result = Return(Undefined)
           /\ calls'[p].issued = calls[p].issued
           /\ kv' = kv
           /\ version' = version

C5_DeleteAbsentVoteIsNoOp == [][C5_StepOk]_vars

\* A deleteVote that returned without ever sending a transaction, for an item
\* that has been voted for.
C5_Witness ==
    \E p \in Procs :
        /\ calls[p].op = "deleteVote"
        /\ calls[p].pc = "done"
        /\ calls[p].result = Return(Undefined)
        /\ ~calls[p].issued
        /\ \E i \in ItemIds : Present(ItemKey(i)) /\ Score(i) > 0

\* C10: a stored item carries the identifier of its key and keeps its creator
\* for ever; a createItem whose identifier is taken returns no item, changes
\* nothing and ends (no second attempt); otherwise it stores exactly its item.
C10_StepOk ==
    /\ \A id \in ItemIds :
          /\ Present(ItemKey(id))' => kv'[ItemKey(id)].value.id = id
          /\ Present(ItemKey(id)) =>
                /\ Present(ItemKey(id))'
                /\ kv'[ItemKey(id)].value.userId = kv[ItemKey(id)].value.userId
    /\ \A p \in Procs :
          (Free(p) /\ Stepped(p) /\ calls'[p].op = "createItem")
          => \/ /\ calls'[p].pc = "done"
                /\ calls'[p].result = Return(Undefined)
                /\ kv' = kv
                /\ \E id \in ItemIds : Present(ItemKey(id))
             \/ /\ calls'[p].pc = "fetch"
                /\ \E id \in ItemIds :
                      /\ ~Present(ItemKey(id))
                      /\ kv' = [kv EXCEPT ![ItemKey(id)] =
                                  [value |-> calls'[p].reads.item,
                                   versionstamp |-> version']]
                      /\ calls'[p].reads.item.id = id
                      /\ calls'[p].reads.item.score = 0

C10_CreateItemNeverOverwrites == [][C10_StepOk]_vars

\* A createItem that found its identifier taken, by an item since voted for.
C10_Witness ==
    \E p \in Procs :
        /\ calls[p].op = "createItem"
        /\ calls[p].pc = "done"
        /\ calls[p].result = Return(Undefined)
        /\ \E i \in ItemIds : Present(ItemKey(i)) /\ Score(i) > 0

\* C4: after createUser and any successful setUserSubscription and
\* setUserSession calls, made with records callers were handed earlier, the
\* lookups by the user's current id, login, sessionId (strong read) and
\* stripeCustomerId return the same record.
C4_FourLookupsAgree ==
    \A id \in UserIds :
        LET user == getUserById(id)
        IN user # Null =>
              /\ user.id = id
              /\ getUserByLogin(user.login) = user
              /\ getUserBySessionId_strong(user.sessionId) = user
              /\ getUserByStripeCustomerId(user.stripeCustomerId) = user

\* A user whose session was rotated and who was then subscribed through the
\* record from before the rotation: the session key written by the rotation is
\* older than the user's four current copies.
C4_Witness ==
    \E id \in UserIds, x \in SessionIds :
        LET user == getUserById(id)
            other == Get(UsersBySessionKey(x))
        IN /\ user # Null
           /\ user.isSubscribed
           /\ Get(UsersKey(id)).versionstamp = 3
           /\ x # user.sessionId
           /\ other.versionstamp = 2
           /\ other.value.id = id
           /\ ~other.value.isSubscribed

\* C6: every stored copy of a comment has its twin: the record under
\* comments_by_users/{userId}/{id} is also the record under
\* comments_by_item/{itemId}/{id} of its own itemId, and the other way round.
C6_CommentCopiesAgree ==
    /\ \A u \in UserIds, c \in CommentIds :
          LET e == Get(CommentsByUserKey(u, c))
          IN isEntry(e) =>
                /\ e.value.userId = u /\ e.value.id = c
                /\ Get(CommentsByItemKey(e.value.itemId, c)) = e
    /\ \A i \in ItemIds, c \in CommentIds :
          LET e == Get(CommentsByItemKey(i, c))
          IN isEntry(e) =>
                /\ e.value.itemId = i /\ e.value.id = c
                /\ Get(CommentsByUserKey(e.value.userId, c)) = e

\* Two comments stored under one identifier (by different users on different
\* items), and a third createComment with that identifier that wrote nothing.
C6_Witness ==
    \E c \in CommentIds :
        /\ \A u \in UserIds : Present(CommentsByUserKey(u, c))
        /\ \A i \in ItemIds : Present(CommentsByItemKey(i, c))
        /\ \E p \in Procs :
              /\ calls[p].op = "createComment"
              /\ calls[p].result.value.id = c
              /\ Get(CommentsByUserKey(calls[p].result.value.userId, c)).value
                    # calls[p].result.value

UserKeySet(user) == {UserKeysOf(user)[n] : n \in DOMAIN UserKeysOf(user)}

\* C7: a createUser that returns found its four keys absent and wrote its
\* record (isSubscribed false) under exactly those four; one that found any of
\* them present throws and changes no key.
C7_StepOk ==
    \A p \in Procs :
        (Free(p) /\ Stepped(p) /\ calls'[p].op = "createUser")
        => LET res == calls'[p].result
           IN \/ /\ res.kind = "return"
                 /\ ~res.value.isSubscribed
                 /\ \A k \in UserKeySet(res.value) : ~Present(k)
                 /\ kv' = [k \in Keys |->
                             IF k \in UserKeySet(res.value)
                             THEN [value |-> res.value, versionstamp |-> version']
                             ELSE kv[k]]
              \/ /\ res.kind = "throw"
                 /\ kv' = kv
                 /\ \E k \in UserKeys : Present(k)

C7_CreateUserAllOrNothing == [][C7_StepOk]_vars

\* A createUser that threw beside one that returned, whose record is intact.
C7_Witness ==
    \E p, q \in Procs :
        /\ calls[p].op = "createUser" /\ calls[p].result.kind = "throw"
        /\ calls[q].op = "createUser" /\ calls[q].result.kind = "return"
        /\ \A k \in UserKeySet(calls[q].result.value) :
              Get(k) = [value |-> calls[q].result.value, versionstamp |-> 1]

UserMutations == {"setUserSubscription", "setUserSession", "deleteUser"}

\* The keys a mutation of a user reads, by the name of the entry read.
ReadKeys(op, arg) ==
    IF op = "setUserSession" THEN SessionReadKeys(arg.user) ELSE UserKeysOf(arg.user)

\* Has a key the commit of p checks been written since p read it, or is the
\* session key p is to create taken?
LostRace(p) ==
    \/ \E n \in DOMAIN calls[p].reads :
          Get(ReadKeys(calls[p].op, calls[p].arg)[n]).versionstamp
              # calls[p].reads[n].versionstamp
    \/ /\ calls[p].op = "setUserSession"
       /\ Present(UsersBySessionKey(calls[p].arg.sessionId))

\* C8: the commit of setUserSubscription, setUserSession or deleteUser that has
\* lost a race (a key it checks was written after it read it, or the new
\* session key exists) throws, ends the call and changes no key.
C8_StepOk ==
    \A p \in Procs :
        ( /\ calls[p].op \in UserMutations
          /\ calls[p].pc = "commit"
          /\ LostRace(p)
          /\ Stepped(p) )
        => /\ calls'[p].pc = "done"
           /\ calls'[p].result.kind = "throw"
           /\ kv' = kv

C8_LostRaceFailsHard == [][C8_StepOk]_vars

\* A mutation that threw at its commit beside one that committed.
C8_Witness ==
    \E p, q \in Procs :
        /\ calls[p].op \in UserMutations
        /\ calls[p].result = Throw("commit failed")
        /\ calls[q].op \in UserMutations
        /\ calls[q].result = Return(Undefined)

\* C9: createVote and deleteVote for an item that does not exist, and
\* setUserSubscription, setUserSession and deleteUser for a user one of whose
\* copies read is missing, throw at once and change no key: none of them goes
\* on to a commit.
C9_StepOk ==
    \A p \in Procs :
        /\ ( /\ Stepped(p)
             /\ calls'[p].op = "createVote"
             /\ ~At(p, "createVote", "commit") )
           => \/ /\ calls'[p].pc = "commit"
                 /\ Present(ItemKey(calls'[p].arg.itemId))
              \/ /\ calls'[p].pc = "done"
                 /\ calls'[p].result.kind = "throw"
                 /\ kv' = kv
        /\ ( /\ At(p, "deleteVote", "getVote")
             /\ calls[p].reads.item.value = Null
             /\ Stepped(p) )
           => /\ calls'[p].pc = "done"
              /\ calls'[p].result.kind = "throw"
              /\ kv' = kv
        /\ ( /\ Free(p)
             /\ Stepped(p)
             /\ calls'[p].op \in UserMutations )
           => \/ /\ calls'[p].pc = "commit"
                 /\ \A n \in DOMAIN calls'[p].reads :
                       Present(ReadKeys(calls'[p].op, calls'[p].arg)[n])
              \/ /\ calls'[p].pc = "done"
                 /\ calls'[p].result.kind = "throw"
                 /\ kv' = kv
        /\ ( /\ calls[p].op \in UserMutations
             /\ calls[p].pc = "commit"
             /\ \E n \in DOMAIN calls[p].reads : ~isEntry(calls[p].reads[n])
             /\ Stepped(p) )
           => /\ calls'[p].result.kind = "throw"
              /\ kv' = kv

C9_MissingRecordIsFatal == [][C9_StepOk]_vars

\* C11: once createItem's transaction has committed, the call returns the item
\* it created and the item stays stored, whatever the telemetry POST does: a
\* non-2xx answer and a transport error alike end the call with the item.
C11_StepOk ==
    \A p \in Procs :
        (At(p, "createItem", "fetch") /\ Stepped(p))
        => /\ calls'[p].pc = "done"
           /\ calls'[p].result = Return(calls[p].reads.item)
           /\ kv' = kv
           /\ Get(ItemKey(calls[p].reads.item.id)).value # Null

C11_TelemetryNeverRaised == [][C11_StepOk]_vars

\* Does the store hold exactly kv plus the two copies of comment?
StoredBoth(comment) ==
    LET commentsByUserKey == CommentsByUserKey(comment.userId, comment.id)
        commentsByItemKey == CommentsByItemKey(comment.itemId, comment.id)
    IN /\ ~Present(commentsByUserKey)
       /\ ~Present(commentsByItemKey)
       /\ kv' = [k \in Keys |->
                   IF k \in {commentsByUserKey, commentsByItemKey}
                   THEN [value |-> comment, versionstamp |-> version']
                   ELSE kv[k]]

\* C12: a createComment whose transaction fails (one of its two keys is
\* present) ends at once, writes neither copy and returns no comment; one
\* whose transaction commits stores both copies and returns the comment.
C12_StepOk ==
    \A p \in Procs :
        (Free(p) /\ Stepped(p) /\ calls'[p].op = "createComment")
        => /\ calls'[p].pc = "done"
           /\ \/ /\ calls'[p].result.kind = "return"
                 /\ calls'[p].result.value # Undefined
                 /\ StoredBoth(calls'[p].result.value)
              \/ /\ calls'[p].result = Return(Undefined)
                 /\ kv' = kv

C12_FailedCommentReturnsNothing == [][C12_StepOk]_vars

\* ceil(n / d) for n >= 0, d > 0.
CeilDiv(n, d) == (n + d - 1) \div d

\* C13: getUsersByIds(ids) makes exactly ceil(len(ids)/10) getMany calls, each
\* of at most 10 keys, the next keys of ids in order; each answer appends the
\* values stored under those keys; the call returns a sequence as long as ids
\* whose i-th element is the record stored under users/{ids[i]} (for every
\* key not written since the call began, the record stored there now).
C13_StepOk ==
    \A p \in Procs :
        /\ (Free(p) /\ Stepped(p) /\ calls'[p].op = "getUsersByIds")
           => IF calls'[p].pc = "done"
              THEN calls'[p].result = Return(Array(<<>>))
              ELSE /\ calls'[p].arg.ids # <<>>
                   /\ calls'[p].reads.sent = 1
                   /\ calls'[p].reads.users = <<>>
        /\ (At(p, "getUsersByIds", "getMany") /\ Stepped(p))
           => LET ids == calls[p].arg.ids
                  r == calls[p].reads
                  had == Len(r.users)
                  k == Min(BatchSize, Len(ids) - had)
                  batch == r.batches[r.sent]
                  users == IF calls'[p].pc = "done" THEN calls'[p].result.value.array
                           ELSE calls'[p].reads.users
              IN /\ k >= 1
                 /\ Len(batch) = k
                 /\ \A n \in 1..k : batch[n] = UsersKey(ids[had + n])
                 /\ users = r.users \o [n \in 1..k |-> kv[UsersKey(ids[had + n])].value]
                 /\ IF calls'[p].pc = "done"
                    THEN /\ calls'[p].result.kind = "return"
                         /\ Len(users) = Len(ids)
                         /\ r.sent = CeilDiv(Len(ids), BatchSize)
                         /\ \A i \in 1..Len(ids) :
                               kv[UsersKey(ids[i])].versionstamp <= r.start
                               => users[i] = kv[UsersKey(ids[i])].value
                    ELSE /\ calls'[p].reads.sent = r.sent + 1
                         /\ Len(users) < Len(ids)

C13_BatchesOfTenInOrder == [][C13_StepOk]_vars

\* A call with 25 ids that has returned 25 values, stored records and nulls
\* both among them.
C13_Witness ==
    \E p \in Procs :
        /\ calls[p].op = "getUsersByIds"
        /\ calls[p].pc = "done"
        /\ calls[p].result.kind = "return"
        /\ Len(calls[p].result.value.array) = 25
        /\ \E i, j \in 1..25 :
              /\ calls[p].result.value.array[i] = Null
              /\ calls[p].result.value.array[j] # Null

\* C14: deleteUserBySession(sessionId) removes the key
\* users_by_session/{sessionId} and nothing else, whether the key exists or
\* not and whatever was written to it since anyone read it; every other key
\* keeps its entry, and the call returns.
C14_StepOk ==
    \A p \in Procs :
        ( /\ Free(p)
          /\ Stepped(p)
          /\ calls'[p].op = "deleteUserBySession" )
        => /\ calls'[p].pc = "done"
           /\ calls'[p].result = Return(Undefined)
           /\ \E sessionId \in SessionIds :
                 kv' = [kv EXCEPT ![UsersBySessionKey(sessionId)] = NoEntry]

C14_OnlySessionKeyDeleted == [][C14_StepOk]_vars

\* A user whose session key has been deleted by deleteUserBySession while its
\* three other copies are stored as before.
C14_Witness ==
    \E p \in Procs, id \in UserIds :
        LET user == getUserById(id)
        IN /\ calls[p].op = "deleteUserBySession"
           /\ user # Null
           /\ ~Present(UsersBySessionKey(user.sessionId))
           /\ getUserByLogin(user.login) = user
           /\ getUserByStripeCustomerId(user.stripeCustomerId) = user

\* The rank key of the midpoint 0.5, in the form of the keys of voted items.
MidpointKey == String(Slice(toFixed18(5000), 2, 18))

\* C15: computeZeroToOneScore(0, t) returns, for every timestamp and every
\* clock, the midpoint 0.5 encoded as the rank keys of voted items are: the
\* string of the digit 5 followed by zeros.
C15_ZeroVotesGiveMidpointKey ==
    \A p \in Procs :
        (calls[p].op = "computeZeroToOneScore" /\ calls[p].arg.score = 0)
        => /\ calls[p].result = Return(MidpointKey)
           /\ MidpointKey.string[1] = "5"
           /\ \A i \in 2..Len(MidpointKey.string) : MidpointKey.string[i] = "0"

\* The marker key of the vote a call of createVote or deleteVote is about.
MarkerOf(call) == VoteByUserKey(call.arg.userId, call.arg.itemId)

\* C16: createVote returns only on the commit of one of its own transactions,
\* which writes the marker and the score it read plus one; and a step of a
\* createVote call taken while its marker key is present (another createVote
\* of the pair has won) never ends the call and writes nothing: the call goes
\* on from the read to the commit and from the failed commit to the read.
C16_StepOk ==
    \A p \in Procs :
        /\ (Stepped(p) /\ calls'[p].op = "createVote"
              /\ calls'[p].pc = "done" /\ calls'[p].result.kind = "return")
           => /\ At(p, "createVote", "commit")
              /\ ~Present(MarkerOf(calls[p]))
              /\ kv'[MarkerOf(calls[p])].versionstamp = version'
              /\ kv'[ItemKey(calls[p].arg.itemId)] =
                    [value |-> calls[p].reads.item.value, versionstamp |-> version']
              /\ version' = version + 1
        /\ (Stepped(p) /\ calls'[p].op = "createVote"
              /\ (Free(p) \/ calls[p].op = "createVote")
              /\ calls'[p].pc # "done" /\ Present(MarkerOf(calls'[p])))
           => /\ kv' = kv
              /\ calls'[p].pc = IF At(p, "createVote", "commit") THEN "get" ELSE "commit"
        /\ (calls[p].op = "createVote" /\ calls[p].pc # "done"
              /\ Present(MarkerOf(calls[p])) /\ Stepped(p))
           => /\ calls'[p].pc # "done"
              /\ kv' = kv

C16_CreateVoteReturnsOnlyOnCommit == [][C16_StepOk]_vars

\* A createVote call back at its read after a failed commit, while the marker
\* of its pair, written by another createVote call, is present.
C16_Witness ==
    \E p, q \in Procs :
        /\ At(p, "createVote", "get")
        /\ calls[p].issued
        /\ Present(MarkerOf(calls[p]))
        /\ calls[q].op = "createVote"
        /\ calls[q].result = Return(Undefined)
        /\ calls[q].pc = "done"
        /\ nCreate[Pair] = 1
        /\ nDelete[Pair] = 0

\* C17: the commit of a successful setUserSession(user, newSessionId) leaves
\* users/{id}, users_by_login/{login}, users_by_stripe_customer/{c} and
\* users_by_session/{newSessionId} holding one record, the user with sessionId
\* newSessionId; every session entry that existed before, the one of the
\* old sessionId among them, is still there with the content it had, and no
\* other key is touched.
C17_StepOk ==
    \A p \in Procs :
        ( /\ At(p, "setUserSession", "commit")
          /\ Stepped(p)
          /\ calls'[p].result.kind = "return" )
        => LET arg == calls[p].arg
               user == [arg.user EXCEPT !.sessionId = arg.sessionId]
           IN /\ \A k \in {UsersKey(arg.user.id), UsersByLoginKey(arg.user.login),
                           UsersByStripeCustomerKey(arg.user.stripeCustomerId),
                           UsersBySessionKey(arg.sessionId)} :
                     kv'[k] = [value |-> user, versionstamp |-> version']
              /\ user.sessionId = arg.sessionId
              /\ \A x \in SessionIds :
                     Present(UsersBySessionKey(x))
                     => kv'[UsersBySessionKey(x)] = kv[UsersBySessionKey(x)]
              /\ \A k \in Keys \ UserKeySet(user) : kv'[k] = kv[k]

C17_SessionRotationKeepsOldEntry == [][C17_StepOk]_vars

\* After a successful setUserSession: the user's record carries the new
\* sessionId under its four keys, and the entry of the old sessionId, written
\* earlier, still holds the record with the old sessionId.
C17_Witness ==
    \E p \in Procs, id \in UserIds, old \in SessionIds :
        LET user == getUserById(id)
            dangling == Get(UsersBySessionKey(old))
        IN /\ calls[p].op = "setUserSession"
           /\ calls[p].result = Return(Undefined)
           /\ calls[p].pc = "done"
           /\ user # Null
           /\ user.sessionId # old
           /\ getUserBySessionId_strong(user.sessionId) = user
           /\ isEntry(dangling)
           /\ dangling.value = [user EXCEPT !.sessionId = old]
           /\ dangling.versionstamp < Get(UsersKey(id)).versionstamp

\* C18: getUserBySessionId sends the strong read exactly when the eventual
\* read gave no value, and otherwise returns the value the eventual read gave;
\* the strong read's answer is what it returns then, so it returns a record
\* whenever the session key is present in the store at the strong read.
C18_StepOk ==
    \A p \in Procs :
        /\ (Free(p) /\ Stepped(p) /\ calls'[p].op = "getUserBySessionId")
           => IF calls'[p].pc = "get"
              THEN calls'[p].reads.eventual = Null
              ELSE /\ calls'[p].pc = "done"
                   /\ calls'[p].result.kind = "return"
                   /\ calls'[p].result.value # Null
                   /\ \E x \in SessionIds :
                         calls'[p].result.value \in EventualValues(x)
        /\ (At(p, "getUserBySessionId", "get") /\ Stepped(p))
           => LET key == UsersBySessionKey(calls[p].arg.sessionId)
              IN /\ calls[p].reads.eventual = Null
                 /\ calls'[p].pc = "done"
                 /\ calls'[p].result = Return(kv[key].value)
                 /\ Present(key) => calls'[p].result.value # Null
                 /\ kv' = kv

C18_StrongReadOnlyAfterMiss == [][C18_StepOk]_vars

\* A lookup whose eventual read gave nothing for a session key that is
\* present, its strong read sent; beside it a record that was rotated away.
C18_Witness ==
    \E p \in Procs :
        /\ At(p, "getUserBySessionId", "get")
        /\ calls[p].reads.eventual = Null
        /\ Present(UsersBySessionKey(calls[p].arg.sessionId))
        /\ \E user \in known : Get(UsersKey(user.id)).value \notin {Null, user}

\* The commit of p fails: the call is sent back to its read.
CommitFails(p) ==
    /\ calls[p].op \in VoteOps
    /\ calls[p].pc = "commit"
    /\ calls'[p].pc \in {"get", "getItem"}

\* C19 (safety): with one call per (user, item) pair on an existing item and
\* the createVote calls starting with their markers absent, a vote
\* transaction fails only because another vote transaction on the item has
\* committed since the failing call read the item: the call's own marker is as
\* its checks need it, and a committed vote write read the version this call
\* read, or a later one.
C19_StepOk ==
    \A p \in Procs :
        CommitFails(p)
        => LET itemId == calls[p].arg.itemId
               read == calls[p].reads.item.versionstamp
           IN /\ kv[ItemKey(itemId)].versionstamp > read
              /\ kv[MarkerOf(calls[p])].versionstamp =
                    IF calls[p].op = "createVote" THEN NoVersion
                    ELSE calls[p].reads.vote.versionstamp
              /\ \E e \in BagToSet(voteWrites) : e[1] = itemId /\ e[2] >= read
              /\ \E q \in Procs \ {p} :
                    calls[q].op \in VoteOps /\ calls[q].pc = "done" /\ calls[q].issued

\* C19: every failed vote transaction has that cause, and every call returns.
C19_FailuresCausedAndCallsReturn ==
    /\ [][C19_StepOk]_vars
    /\ \A p \in VoteProcs :
          (calls[p].pc # "done")
             ~> (calls[p].pc = "done" /\ calls[p].result = Return(Undefined))

\* A createVote sent back to its read by a failed transaction, the deleteVote
\* of the other user having committed since it read the item.
C19_Witness ==
    \E p, q \in VoteProcs :
        /\ At(p, "createVote", "get")
        /\ calls[p].issued
        /\ calls[q].op = "deleteVote"
        /\ calls[q].pc = "done"
        /\ calls[q].issued
        /\ nDelete[<<OnceUser(q), OnceItem>>] = 1
        /\ ~Present(MarkerOf(calls[p]))

\* C20: whatever records createUser, setUserSubscription and setUserSession
\* are called with, every stored user entry agrees with its key: the record
\* under users/{x} has id x, under users_by_login/{l} login l, under
\* users_by_session/{s} sessionId s, under users_by_stripe_customer/{c}
\* stripeCustomerId c.
C20_EntriesAgreeWithKeys ==
    /\ \A x \in UserIds :
          Present(UsersKey(x)) => getUserById(x).id = x
    /\ \A l \in Logins :
          Present(UsersByLoginKey(l)) => getUserByLogin(l).login = l
    /\ \A x \in SessionIds :
          Present(UsersBySessionKey(x)) => getUserBySessionId_strong(x).sessionId = x
    /\ \A c \in StripeCustomerIds :
          Present(UsersByStripeCustomerKey(c))
          => getUserByStripeCustomerId(c).stripeCustomerId = c

\* A setUserSubscription or setUserSession has committed with a record made
\* up of the fields of two users: the copy under users/{id} of one of them is
\* not the record under the login it carries.
C20_Witness ==
    /\ \E p \in Procs :
          /\ calls[p].op \in {"setUserSubscription", "setUserSession"}
          /\ calls[p].result = Return(Undefined)
    /\ \E id \in UserIds :
          /\ Present(UsersKey(id))
          /\ getUserByLogin(getUserById(id).login) # getUserById(id)

=============================================================================
